---- MODULE Spec2Model ----
(***************************************************************************)
(* The workflow orchestration core of agent_teams_starter:                 *)
(*   WorkflowOrchestrator   src/app/services/workflow_orchestrator.py      *)
(*   WorkflowRepository     src/app/repositories/workflow_repository.py    *)
(*   ConnectionManager      src/app/core/websocket_manager.py              *)
(*   ProviderFactory        src/app/core/llm_providers/factory.py          *)
(*                                                                         *)
(* The program runs on one asyncio event loop: a coroutine runs without    *)
(* interruption from one await to the next.  An action of this module is   *)
(* one such segment of one coroutine: the completion of the operation the  *)
(* coroutine is suspended in (a store statement, an adapter call, a send   *)
(* to one websocket) followed by the code that runs up to the next await.  *)
(* The orchestrator's lock is only ever taken and released inside one      *)
(* segment (no await stands inside an "async with self._lock" block).      *)
(***************************************************************************)
EXTENDS Naturals, Sequences, FiniteSets, TLC

\* ------------------------------------------------------------- bounds
MaxWorkflows == 2
MaxListeners == 1

\* The websockets of the runs that look at the push channel alone.
MaxFanoutListeners == 2

\* The rows of the runs that look at the repository alone, and the
\* different times at which they were created.
MaxRows == 3
MaxCreated == 2

WorkflowIds == 1..MaxWorkflows
Listeners == 1..MaxListeners
FanoutListeners == 1..MaxFanoutListeners

\* ------------------------------------------------------------- values
\* Python's None, for a string, for a datetime and for a dict.
NoneStr == "None"
NoneTime == 0
NoneVal == <<"None">>
NoIter == <<>>

Stages == <<"architect", "implement", "reviewer", "tester">>
StageNames == {"architect", "implement", "reviewer", "tester"}
StageIndex(agent_name) == CHOOSE i \in 1..4 : Stages[i] = agent_name

\* datetime.isoformat(): a string made from the datetime.
isoformat(t) == <<"iso", t>>
\* json.dumps of a result dict, and the repository's _parse_json.
json_dumps(v) == <<"json", v>>
parse_json(value) == IF value = NoneVal THEN NoneVal ELSE value[2]

\* The requirements text a client sends with its request (one per request).
Requirements(id) == <<"requirements", id>>
\* What the adapter of a stage returns for a workflow: output.model_dump().
model_dump(id, agent_name) == <<"dict", id, agent_name>>
\* The literal {} the orchestrator records as the tester's result.
EmptyDict == <<"dict">>
\* str(x) of a dict, as the conversation log stores it.
str(v) == <<"str", v>>

\* The provider names a request may carry: none (the default provider is
\* used) and one the factory does not register.
Providers == {NoneStr, "glm"}
default_provider == "anthropic"
RegisteredProviders == {"anthropic", "openai"}
\* Whether ProviderFactory.create raises ValueError("Unknown provider").
ProviderFactoryRaises(provider) ==
    LET name == IF provider = NoneStr THEN default_provider ELSE provider
    IN  name \notin RegisteredProviders

\* ------------------------------------------------------------- models
AgentStepResult(status, started_at, completed_at, result, error) ==
    [status |-> status, started_at |-> started_at, completed_at |-> completed_at,
     result |-> result, error |-> error]

\* WorkflowState as start_workflow builds it: the four step results are None,
\* which is an empty domain of results here.
NewWorkflowState(requirements, provider, now) ==
    [status |-> "pending", created_at |-> now, started_at |-> NoneTime,
     completed_at |-> NoneTime, requirements |-> requirements,
     provider |-> provider, results |-> <<>>, error |-> NoneStr]

\* workflow.<agent_name>_result = step_result
SetResult(results, agent_name, step_result) ==
    [a \in (DOMAIN results) \cup {agent_name} |->
        IF a = agent_name THEN step_result ELSE results[a]]

\* --------------------------------------------------- WorkflowRepository
StepColumns(status) ==
    [status |-> status, started_at |-> NoneVal, completed_at |-> NoneVal,
     result |-> NoneVal, error |-> NoneStr]

\* The INSERT without its four <agent>_status columns, which stay NULL.
create_workflow_no_step_status(rows, workflow_id, status, requirements, provider, now) ==
    rows @@ (workflow_id :>
        [status |-> status, requirements |-> requirements, provider |-> provider,
         created_at |-> isoformat(now), started_at |-> NoneVal,
         completed_at |-> NoneVal, error |-> NoneStr,
         steps |-> [a \in StageNames |-> StepColumns(NoneStr)]])

\* INSERT INTO workflows: the row with the four step statuses pending and
\* every other step column NULL.
create_workflow(rows, workflow_id, status, requirements, provider, now) ==
    rows @@ (workflow_id :>
        [status |-> status, requirements |-> requirements, provider |-> provider,
         created_at |-> isoformat(now), started_at |-> NoneVal,
         completed_at |-> NoneVal, error |-> NoneStr,
         steps |-> [a \in StageNames |-> StepColumns("pending")]])

\* update_workflow_status with every column in the SET clause, a NULL for
\* each argument that is None.
update_workflow_status_overwrite(rows, workflow_id, status, started_at, completed_at, error) ==
    IF workflow_id \notin DOMAIN rows THEN rows
    ELSE [rows EXCEPT ![workflow_id] =
            [@ EXCEPT !.status = status, !.started_at = started_at,
                      !.completed_at = completed_at, !.error = error]]

\* The UPDATE as an upsert: an id that has no row gets one.
update_workflow_status_upsert(rows, workflow_id, status, started_at, completed_at, error) ==
    LET present == IF workflow_id \in DOMAIN rows THEN rows
                   ELSE create_workflow(rows, workflow_id, status, Requirements(workflow_id), NoneStr, 1)
    IN  [present EXCEPT ![workflow_id] =
            [@ EXCEPT !.status = IF status # NoneStr THEN status ELSE @,
                      !.started_at = IF started_at # NoneVal THEN started_at ELSE @,
                      !.completed_at = IF completed_at # NoneVal THEN completed_at ELSE @,
                      !.error = IF error # NoneStr THEN error ELSE @]]

\* UPDATE workflows SET ... WHERE id = ?: only the columns whose argument is
\* not None; no row is touched when the id has none.
update_workflow_status(rows, workflow_id, status, started_at, completed_at, error) ==
    IF workflow_id \notin DOMAIN rows THEN rows
    ELSE [rows EXCEPT ![workflow_id] =
            [@ EXCEPT !.status = IF status # NoneStr THEN status ELSE @,
                      !.started_at = IF started_at # NoneVal THEN started_at ELSE @,
                      !.completed_at = IF completed_at # NoneVal THEN completed_at ELSE @,
                      !.error = IF error # NoneStr THEN error ELSE @]]

\* update_agent_step without the WHERE id = ? of line 168: every row's step
\* is updated.
update_agent_step_all_rows(rows, workflow_id, agent_name, status, started_at, completed_at, result, error) ==
    [id \in DOMAIN rows |->
        [rows[id] EXCEPT !.steps[agent_name] =
            [@ EXCEPT !.status = status,
                      !.started_at = IF started_at # NoneVal THEN started_at ELSE @,
                      !.completed_at = IF completed_at # NoneVal THEN completed_at ELSE @,
                      !.result = IF result # NoneVal THEN json_dumps(result) ELSE @,
                      !.error = IF error # NoneStr THEN error ELSE @]]]

\* update_agent_step without lines 150-151 (the <agent>_status column).
update_agent_step_no_status(rows, workflow_id, agent_name, status, started_at, completed_at, result, error) ==
    IF workflow_id \notin DOMAIN rows THEN rows
    ELSE [rows EXCEPT ![workflow_id].steps[agent_name] =
            [@ EXCEPT !.started_at = IF started_at # NoneVal THEN started_at ELSE @,
                      !.completed_at = IF completed_at # NoneVal THEN completed_at ELSE @,
                      !.result = IF result # NoneVal THEN json_dumps(result) ELSE @,
                      !.error = IF error # NoneStr THEN error ELSE @]]

\* UPDATE workflows SET <agent>_status = ?, ... WHERE id = ?: the status
\* always, the other columns of the step when their argument is not None.
update_agent_step(rows, workflow_id, agent_name, status, started_at, completed_at, result, error) ==
    IF workflow_id \notin DOMAIN rows THEN rows
    ELSE [rows EXCEPT ![workflow_id].steps[agent_name] =
            [@ EXCEPT !.status = status,
                      !.started_at = IF started_at # NoneVal THEN started_at ELSE @,
                      !.completed_at = IF completed_at # NoneVal THEN completed_at ELSE @,
                      !.result = IF result # NoneVal THEN json_dumps(result) ELSE @,
                      !.error = IF error # NoneStr THEN error ELSE @]]

\* The INSERT over an id that is never refused.
IntegrityError_never(rows, workflow_id) == FALSE

\* "id TEXT PRIMARY KEY": an INSERT with an id that has a row raises
\* sqlite3.IntegrityError and inserts nothing.
IntegrityError(rows, workflow_id) == workflow_id \in DOMAIN rows

\* DELETE FROM workflows WHERE id = ?.  The connections get_db opens never
\* run PRAGMA foreign_keys = ON, so no conversation row is removed with it.
delete_workflow(rows, workflow_id) ==
    [id \in (DOMAIN rows) \ {workflow_id} |-> rows[id]]

\* The INSERT replacing what the workflow id had.
save_conversation_replace(log, agent_name, role, content) ==
    <<[agent_name |-> agent_name, role |-> role, content |-> content]>>

\* INSERT INTO conversation_history: one more row for the workflow id.
save_conversation(log, agent_name, role, content) ==
    Append(log, [agent_name |-> agent_name, role |-> role, content |-> content])

\* _get_current_step: the first step of the row, in pipeline order, whose
\* status is in_progress, or None.
get_current_step(row) ==
    IF \E i \in 1..4 : row.steps[Stages[i]].status = "in_progress"
    THEN Stages[CHOOSE i \in 1..4 :
                   /\ row.steps[Stages[i]].status = "in_progress"
                   /\ \A j \in 1..(i - 1) : row.steps[Stages[j]].status # "in_progress"]
    ELSE NoneStr

\* _row_to_workflow_list_item
row_to_workflow_list_item(workflow_id, row) ==
    [workflow_id |-> workflow_id, status |-> row.status,
     requirements |-> row.requirements, created_at |-> row.created_at,
     started_at |-> row.started_at, completed_at |-> row.completed_at,
     current_step |-> get_current_step(row),
     step_status |-> [a \in StageNames |-> row.steps[a].status]]

\* _row_to_workflow_detail: of the step columns the detail has the
\* architect's status and the four parsed results.
row_to_workflow_detail(workflow_id, row) ==
    [workflow_id |-> workflow_id, status |-> row.status,
     requirements |-> row.requirements, provider |-> row.provider,
     created_at |-> row.created_at, started_at |-> row.started_at,
     completed_at |-> row.completed_at, error |-> row.error,
     current_step |-> get_current_step(row),
     architect_status |-> row.steps["architect"].status,
     results |-> [a \in StageNames |-> parse_json(row.steps[a].result)]]

\* SELECT * FROM workflows WHERE id = ?: the detail of the row, or None.
get_workflow(rows, workflow_id) ==
    IF workflow_id \in DOMAIN rows
    THEN row_to_workflow_detail(workflow_id, rows[workflow_id])
    ELSE NoneVal

\* ORDER BY created_at the wrong way round: oldest first.
order_by_created_at_asc(rows, a, b) == rows[a].created_at[2] <= rows[b].created_at[2]

\* ORDER BY created_at DESC: row a may stand before row b.  isoformat
\* strings of one format compare as their datetimes do.
order_by_created_at_desc(rows, a, b) == rows[a].created_at[2] >= rows[b].created_at[2]

Min(a, b) == IF a <= b THEN a ELSE b

\* list_workflows: the rows with the status when "if status:" holds (neither
\* None nor the empty string), ORDER BY created_at DESC LIMIT ? OFFSET ?,
\* each as a WorkflowListItem.  SQL leaves the order of rows with equal
\* created_at open, so the result is one of a set.
list_workflows(rows, limit, offset, status) ==
    LET selected == {id \in DOMAIN rows :
                        status \in {NoneStr, ""} \/ rows[id].status = status}
        n == Cardinality(selected)
        ordered == {s \in [1..n -> selected] :
                       /\ \A i, j \in 1..n : i # j => s[i] # s[j]
                       /\ \A i, j \in 1..n : i < j => order_by_created_at_desc(rows, s[i], s[j])}
    IN  {[i \in 1..(Min(n, offset + limit) - Min(n, offset)) |->
             row_to_workflow_list_item(s[offset + i], rows[s[offset + i]])] :
         s \in ordered}

\* ------------------------------------------------------------ variables
VARIABLES
    workflows,            \* WorkflowOrchestrator._workflows: id -> WorkflowState
    db,                   \* table workflows: id -> row
    conversation_history, \* table conversation_history, the rows of each workflow_id in insertion order
    active_connections,   \* ConnectionManager._active_connections
    open,                 \* websockets whose client is connected: a send to any other raises
    task,                 \* the execution task of each workflow: where it is suspended, its locals
    events,               \* per workflow, the broadcast_workflow_update calls its task has made
    calls,                \* per workflow, the stages whose adapter was invoked, in order
    clock,                \* per workflow, the logical time its next datetime.utcnow() reads
    received,             \* per open websocket and workflow, the position in `events` of the last event its client got
    lock,                 \* WorkflowOrchestrator._lock: the workflow id of the task that holds it, or Unlocked
    unguarded,            \* the workflows whose in-memory state was assigned to by a task that did not hold the lock
    returned              \* the last call a client of the repository made: its name, arguments and what it returned

vars == <<workflows, db, conversation_history, active_connections, open, task,
          events, calls, clock, received, lock, unguarded, returned>>

\* --------------------------------------------------- execution task
\* Where a task is suspended (at), in which stage's code (stage), and the
\* locals that live across the await: the iterator and the disconnected set
\* of the broadcast it is in, the caught exception's message, the "now" of
\* the method it is in, and reviewer_output.
NewTask ==
    [at |-> "scheduled", stage |-> "none", it |-> NoIter, e |-> NoneStr,
     now |-> NoneTime, reviewer_output |-> NoneVal]

\* The awaits inside a stage's try block: an exception raised there is
\* caught by the stage's "except Exception".
TryPoints == {"w_start", "b_start", "exec", "w_complete", "b_complete",
              "c_prompt", "c_response"}
StorePoints == {"w_running", "w_start", "w_complete", "w_fail", "w_failwf",
                "w_completed"}
ConversationPoints == {"c_init", "c_prompt", "c_response"}
BroadcastPoints == {"b_running", "b_start", "b_complete", "b_fail", "b_failwf",
                    "b_completed"}
Ended == {"done", "crashed"}

\* The state one task's segment reads and writes, as one record.
Machine(id) ==
    [id |-> id, wf |-> workflows[id], db |-> db,
     log |-> conversation_history[id], conns |-> active_connections,
     t |-> task[id], ev |-> events[id], calls |-> calls[id], clk |-> clock[id],
     lock |-> lock, unguarded |-> unguarded]

At(M, at, stage) == [M EXCEPT !.t.at = at, !.t.stage = stage]

\* The lock's holder when no task holds it (workflow ids are 1, 2, ...).
Unlocked == 0

\* "async with self._lock" left without releasing the lock.
release_nothing(M) == M

\* Entering "async with self._lock": asyncio.Lock.acquire() on a lock
\* that is free returns without suspending the task.
acquire(M) == [M EXCEPT !.lock = M.id]

\* Leaving "async with self._lock": asyncio.Lock.release().
release(M) == [M EXCEPT !.lock = Unlocked]

\* An assignment to fields of the task's WorkflowState.
assign(M, wf) ==
    [M EXCEPT !.wf = wf,
              !.unguarded = IF M.lock = M.id THEN @ ELSE @ \cup {M.id}]

\* "async with self._lock:" around assignments that make the state wf.  A
\* task that finds the lock held would wait for it.
locked(M, wf) ==
    IF M.lock # Unlocked THEN {} ELSE {release(assign(acquire(M), wf))}

\* Each operator below is the code of one method from its entry (or from the
\* await it resumes after) to the next await, and gives the set of machine
\* states the task can be suspended in next.  Time is a logical clock that
\* ticks once per segment: the datetime.utcnow() calls of one segment (the
\* one for the in-memory state and the one for the store write's argument)
\* read the same time.

\* _update_step_status up to its store write: under the lock the step's
\* result is replaced by a fresh AgentStepResult (started_at only for
\* IN_PROGRESS), then update_agent_step is awaited.
update_step_status(M, agent_name, status) ==
    LET now == M.clk
        step_result == AgentStepResult(status,
                           IF status = "in_progress" THEN now ELSE NoneTime,
                           NoneTime, NoneVal, NoneStr)
    IN  {At([L EXCEPT !.t.now = now, !.clk = @ + 1], "w_start", agent_name) :
            L \in locked(M, [M.wf EXCEPT !.results = SetResult(@, agent_name, step_result)])}

\* _complete_step keeping the step's AgentStepResult and its status: only
\* the result is put in it.
complete_step_not_recorded(M, agent_name, result) ==
    LET now == M.clk
    IN  {At([L EXCEPT !.t.now = now, !.clk = @ + 1], "w_complete", agent_name) :
            L \in locked(M, [M.wf EXCEPT !.results =
                     SetResult(@, agent_name, [@[agent_name] EXCEPT !.result = result])])}

\* _complete_step up to its store write.
complete_step(M, agent_name, result) ==
    LET now == M.clk
        step_result == AgentStepResult("completed", now, now, result, NoneStr)
    IN  {At([L EXCEPT !.t.now = now, !.clk = @ + 1], "w_complete", agent_name) :
            L \in locked(M, [M.wf EXCEPT !.results = SetResult(@, agent_name, step_result)])}

\* _fail_step up to its store write.
fail_step(M, agent_name, error) ==
    LET now == M.clk
        step_result == AgentStepResult("failed", now, now, NoneVal, error)
    IN  {At([L EXCEPT !.t.now = now, !.t.e = error, !.clk = @ + 1], "w_fail", agent_name) :
            L \in locked(M, [M.wf EXCEPT !.results = SetResult(@, agent_name, step_result)])}

\* _fail_workflow without line 402 (workflow.error = error).
fail_workflow_no_error(M, error) ==
    LET now == M.clk
    IN  {At([L EXCEPT !.t.now = now, !.clk = @ + 1], "w_failwf", M.t.stage) :
            L \in locked(M, [M.wf EXCEPT !.status = "failed", !.completed_at = now])}

\* _fail_workflow up to its store write.
fail_workflow(M, error) ==
    LET now == M.clk
    IN  {At([L EXCEPT !.t.now = now, !.clk = @ + 1], "w_failwf", M.t.stage) :
            L \in locked(M, [M.wf EXCEPT !.status = "failed", !.completed_at = now,
                                         !.error = error])}

\* "Mark workflow as completed" (lines 251-263) up to its store write: the
\* in-memory status changes unless it is FAILED; the store write with status
\* COMPLETED is issued either way.
mark_completed(M) ==
    LET now == M.clk
    IN  {At([L EXCEPT !.t.now = now, !.clk = @ + 1], "w_completed", "none") :
            L \in locked(M, IF M.wf.status # "failed"
                            THEN [M.wf EXCEPT !.status = "completed", !.completed_at = now]
                            ELSE M.wf)}

\* The implement stage's handler without its _fail_workflow and return.
FatalStagesArchitectOnly == {"architect"}

\* The stages whose except handler fails the workflow and returns.
FatalStages == {"architect", "implement"}

\* A stage's try statement in a loop: the stage is begun again.
after_stage_retry(M, agent_name) ==
    update_step_status(M, agent_name, "in_progress")

\* What follows a stage's try statement: the next stage's try block, which
\* begins with _update_step_status(IN_PROGRESS), or after the tester the
\* final block.
after_stage(M, agent_name) ==
    IF agent_name = "tester" THEN mark_completed(M)
    ELSE update_step_status(M, Stages[StageIndex(agent_name) + 1], "in_progress")

\* The keyword arguments agent.execute is called with (lines 157-159,
\* 179-185, 205-211, 230-237).  architect_output and implement_output are
\* never None where they are read: a failed fatal stage returns.  `outcome`
\* records how the call ended.
AdapterCall(M, agent_name) ==
    LET requirements == M.wf.requirements
        architecture == model_dump(M.id, "architect")
        implementation == model_dump(M.id, "implement")
    IN  CASE agent_name = "architect" ->
               [agent_name |-> agent_name, requirements |-> requirements,
                outcome |-> "pending"]
          [] agent_name = "implement" ->
               [agent_name |-> agent_name, requirements |-> requirements,
                architecture |-> architecture,
                outcome |-> "pending"]
          [] agent_name = "reviewer" ->
               [agent_name |-> agent_name, requirements |-> requirements,
                architecture |-> architecture, implementation |-> implementation,
                outcome |-> "pending"]
          [] agent_name = "tester" ->
               [agent_name |-> agent_name, requirements |-> requirements,
                architecture |-> architecture, implementation |-> implementation,
                review |-> M.t.reviewer_output,
                outcome |-> "pending"]

\* The same without the "return" of lines 172 and 198: after
\* _fail_workflow the next stage's try block begins.
after_broadcast_no_return(M) ==
    CASE M.t.at = "b_running" -> {At(M, "c_init", "none")}
      [] M.t.at = "b_start" ->
            {At([M EXCEPT !.calls = Append(@, AdapterCall(M, M.t.stage))],
                "exec", M.t.stage)}
      [] M.t.at = "b_complete" -> {At(M, "c_prompt", M.t.stage)}
      [] M.t.at = "b_fail" ->
            IF M.t.stage \in FatalStages THEN fail_workflow(M, M.t.e)
            ELSE after_stage(M, M.t.stage)
      [] M.t.at = "b_failwf" -> after_stage(M, M.t.stage)
      [] M.t.at = "b_completed" -> {At(M, "done", "none")}

\* The code that follows a broadcast_workflow_update call that returned.
after_broadcast(M) ==
    CASE M.t.at = "b_running" -> {At(M, "c_init", "none")}
      [] M.t.at = "b_start" ->
            {At([M EXCEPT !.calls = Append(@, AdapterCall(M, M.t.stage))],
                "exec", M.t.stage)}
      [] M.t.at = "b_complete" -> {At(M, "c_prompt", M.t.stage)}
      [] M.t.at = "b_fail" ->
            IF M.t.stage \in FatalStages THEN fail_workflow(M, M.t.e)
            ELSE after_stage(M, M.t.stage)
      [] M.t.at = "b_failwf" -> {At(M, "done", "none")}
      [] M.t.at = "b_completed" -> {At(M, "done", "none")}

\* An exception raised while the task is at M.t.at: inside a stage's try
\* block the handler runs (_fail_step, up to its store write); anywhere else
\* nothing catches it and the task ends.
raise(M, error) ==
    IF M.t.at \in TryPoints
    THEN fail_step([M EXCEPT !.t.it = NoIter], M.t.stage, error)
    ELSE {At([M EXCEPT !.t.it = NoIter, !.t.e = error], "crashed", "none")}

\* ---------------------------------------------------- ConnectionManager
\* The message of the RuntimeError a set iterator raises.
SetChanged == "Set changed size during iteration"

\* "for connection in self._active_connections" resumed after a send: the
\* set iterator's next().  It raises RuntimeError when the set's size is not
\* the size it had when the loop began; otherwise it yields an element not
\* yet visited.  Every element that was in the set when the loop began and
\* still is gets visited; one added since (another having left) may or may
\* not be.  When the loop ends the failed connections are removed from the
\* registry (line 51) and the caller continues.
iter_next(M) ==
    LET it == M.t.it
        must == (it.snap \cap M.conns) \ it.visited
        may == (M.conns \ it.snap) \ it.visited
        body == {[M EXCEPT !.t.it.visited = @ \cup {c}, !.t.it.cur = c] :
                    c \in must \cup may}
        done == after_broadcast([M EXCEPT !.conns = @ \ it.disconnected,
                                          !.t.it = NoIter])
    IN  IF Cardinality(M.conns) # it.used
        THEN raise(M, SetChanged)
        ELSE body \cup (IF must = {} THEN done ELSE {})

\* broadcast from its entry to its first await: nothing to do with an empty
\* registry; otherwise the loop begins.
broadcast(M) ==
    IF M.conns = {} THEN after_broadcast(M)
    ELSE iter_next([M EXCEPT !.t.it =
            [used |-> Cardinality(M.conns), snap |-> M.conns, visited |-> {},
             cur |-> 0, disconnected |-> {}]])

\* broadcast_workflow_update, called where the task resumes at `at`.
broadcast_workflow_update(M, status, current_step, at) ==
    broadcast([M EXCEPT !.ev = Append(@, [status |-> status,
                                          current_step |-> current_step]),
                        !.t.at = at])

\* ------------------------------------------- segments of _execute_workflow
\* The store statement the task is suspended in commits, and the method that
\* issued it goes on to its broadcast.
store_done(M) ==
    LET id == M.id
        agent == M.t.stage
        now == isoformat(M.t.now)
    IN  CASE M.t.at = "w_running" ->
               broadcast_workflow_update(
                   [M EXCEPT !.db = update_workflow_status(@, id, "running", now, NoneVal, NoneStr)],
                   "running", NoneStr, "b_running")
          [] M.t.at = "w_start" ->
               broadcast_workflow_update(
                   [M EXCEPT !.db = update_agent_step(@, id, agent, "in_progress", now, NoneVal, NoneVal, NoneStr)],
                   "running", agent, "b_start")
          [] M.t.at = "w_complete" ->
               broadcast_workflow_update(
                   [M EXCEPT !.db = update_agent_step(@, id, agent, "completed", now, now, M.wf.results[agent].result, NoneStr)],
                   "running", agent, "b_complete")
          [] M.t.at = "w_fail" ->
               broadcast_workflow_update(
                   [M EXCEPT !.db = update_agent_step(@, id, agent, "failed", now, now, NoneVal, M.t.e)],
                   "running", agent, "b_fail")
          [] M.t.at = "w_failwf" ->
               broadcast_workflow_update(
                   [M EXCEPT !.db = update_workflow_status(@, id, "failed", NoneVal, now, M.t.e)],
                   "failed", NoneStr, "b_failwf")
          [] M.t.at = "w_completed" ->
               broadcast_workflow_update(
                   [M EXCEPT !.db = update_workflow_status(@, id, "completed", NoneVal, now, NoneStr)],
                   "completed", NoneStr, "b_completed")

\* The prompt _save_agent_conversation is given for a stage (lines 167, 193,
\* 219, 245) and the response it logs.
Prompt(M, agent_name) ==
    IF agent_name = "architect" THEN M.wf.requirements
    ELSE str(model_dump(M.id, IF agent_name = "implement" THEN "architect" ELSE "implement"))
Response(M, agent_name) ==
    str(IF agent_name = "tester" THEN EmptyDict ELSE model_dump(M.id, agent_name))

\* The save_conversation the task is suspended in commits.  After the first
\* one (lines 128-133) the provider is created, outside any try block, and
\* the architect stage begins; after a stage's prompt its response is saved;
\* after the response the stage's try block is over.
conversation_saved(M) ==
    LET agent == M.t.stage
    IN  CASE M.t.at = "c_init" ->
               LET M1 == [M EXCEPT !.log = save_conversation(@, "system", "user", M.wf.requirements)]
               IN  IF ProviderFactoryRaises(M.wf.provider)
                   THEN raise(M1, "Unknown provider")
                   ELSE update_step_status(M1, "architect", "in_progress")
          [] M.t.at = "c_prompt" ->
               {At([M EXCEPT !.log = save_conversation(@, agent, "user", Prompt(M, agent))],
                   "c_response", agent)}
          [] M.t.at = "c_response" ->
               after_stage([M EXCEPT !.log = save_conversation(@, agent, "assistant", Response(M, agent))],
                           agent)

\* agent.execute returned: the stage's output is kept (the tester's is
\* dropped and {} recorded) and _complete_step runs up to its store write.
adapter_returned(M) ==
    LET agent == M.t.stage
        output == model_dump(M.id, agent)
        M1 == IF agent = "reviewer" THEN [M EXCEPT !.t.reviewer_output = output] ELSE M
        M2 == [M1 EXCEPT !.calls[Len(M.calls)].outcome = "returned"]
    IN  complete_step(M2, agent, IF agent = "tester" THEN EmptyDict ELSE output)

\* agent.execute raised RuntimeError("Agent ... execution failed").
adapter_raised(M) ==
    raise([M EXCEPT !.calls[Len(M.calls)].outcome = "raised"], "Agent execution failed")

\* connection.send_text returned or raised: a connection whose send raised
\* joins `disconnected`, and the loop goes on.
send_done(M, delivered) ==
    iter_next(IF delivered THEN M
              ELSE [M EXCEPT !.t.it.disconnected = @ \cup {M.t.it.cur}])

\* _execute_workflow without line 112 (workflow.status = RUNNING).
execute_workflow_no_running(M) ==
    LET now == M.clk
    IN  {At([L EXCEPT !.t.now = now, !.clk = @ + 1], "w_running", "none") :
            L \in locked(M, [M.wf EXCEPT !.started_at = now])}

\* _execute_workflow from its start to its first await (lines 108-120).
execute_workflow(M) ==
    LET now == M.clk
    IN  {At([L EXCEPT !.t.now = now, !.clk = @ + 1], "w_running", "none") :
            L \in locked(M, [M.wf EXCEPT !.status = "running", !.started_at = now])}

\* ----------------------------------------------------------- actions
Init ==
    /\ workflows = <<>>
    /\ db = <<>>
    /\ conversation_history = <<>>
    /\ active_connections = {}
    /\ open = {}
    /\ task = <<>>
    /\ events = <<>>
    /\ calls = <<>>
    /\ clock = <<>>
    /\ received = <<>>
    /\ lock = Unlocked
    /\ unguarded = {}
    /\ returned = [call |-> NoneStr]

\* The machine state a segment of task id ends in becomes the state.
Commit(id, M) ==
    /\ workflows' = [workflows EXCEPT ![id] = M.wf]
    /\ db' = M.db
    /\ conversation_history' = [conversation_history EXCEPT ![id] = M.log]
    /\ active_connections' = M.conns
    /\ task' = [task EXCEPT ![id] = M.t]
    /\ events' = [events EXCEPT ![id] = M.ev]
    /\ calls' = [calls EXCEPT ![id] = M.calls]
    /\ clock' = [clock EXCEPT ![id] = M.clk]
    /\ lock' = M.lock
    /\ unguarded' = M.unguarded
    /\ UNCHANGED returned
    /\ UNCHANGED open

\* uuid.uuid4(): an id no workflow has had.
NewWorkflowId == Cardinality(DOMAIN workflows) + 1

\* start_workflow with the id uuid.uuid4() gave it.  The INSERT of
\* create_workflow is awaited first (line 69): when it raises, the exception
\* leaves start_workflow there and lines 77-85 do not run.  Otherwise the
\* state is put in _workflows under the lock (taken and released, lines
\* 77-78), the execution task is created and the id is returned.
start_workflow(workflow_id, provider) ==
    LET requirements == Requirements(workflow_id)
        now == 1
    IN  /\ lock = Unlocked
        /\ IF IntegrityError(db, workflow_id)
           THEN UNCHANGED <<db, workflows, task, conversation_history, events, calls, clock>>
           ELSE /\ db' = create_workflow(db, workflow_id, "pending", requirements, provider, now)
                /\ workflows' = workflows @@ (workflow_id :> NewWorkflowState(requirements, provider, now))
                /\ task' = task @@ (workflow_id :> NewTask)
                /\ conversation_history' = conversation_history @@ (workflow_id :> <<>>)
                /\ events' = events @@ (workflow_id :> <<>>)
                /\ calls' = calls @@ (workflow_id :> <<>>)
                /\ clock' = clock @@ (workflow_id :> now + 1)
        /\ UNCHANGED <<active_connections, open, received, lock, unguarded>>

\* POST /workflow: start_workflow, uuid4 giving an id never given before.
StartWorkflow(provider) ==
    /\ NewWorkflowId \in WorkflowIds
    /\ start_workflow(NewWorkflowId, provider)
    /\ UNCHANGED returned

\* The event loop runs the created task for the first time.
ExecuteWorkflow(id) ==
    /\ task[id].at = "scheduled"
    /\ \E M \in execute_workflow(Machine(id)) : Commit(id, M)
    /\ UNCHANGED received

StoreDone(id) ==
    /\ task[id].at \in StorePoints
    /\ \E M \in store_done(Machine(id)) : Commit(id, M)
    /\ UNCHANGED received

ConversationSaved(id) ==
    /\ task[id].at \in ConversationPoints
    /\ \E M \in conversation_saved(Machine(id)) : Commit(id, M)
    /\ UNCHANGED received

AdapterReturns(id) ==
    /\ task[id].at = "exec"
    /\ \E M \in adapter_returned(Machine(id)) : Commit(id, M)
    /\ UNCHANGED received

AdapterRaises(id) ==
    /\ task[id].at = "exec"
    /\ \E M \in adapter_raised(Machine(id)) : Commit(id, M)
    /\ UNCHANGED received

\* The send to the websocket the loop is at ends: the client got the event
\* being broadcast, the newest of the workflow, or the send raised.
SendDone(id) ==
    LET cur == task[id].it.cur
        delivered == cur \in open
    IN  /\ task[id].at \in BroadcastPoints
        /\ \E M \in send_done(Machine(id), delivered) : Commit(id, M)
        /\ received' = IF delivered
                       THEN [received EXCEPT ![cur] = (id :> Len(events[id])) @@ @]
                       ELSE received

\* A websocket no broadcast in progress still refers to.
Unreferenced(l) ==
    \A id \in DOMAIN task :
        task[id].it # NoIter =>
            /\ l \notin task[id].it.snap \cup task[id].it.visited \cup task[id].it.disconnected
            /\ l # task[id].it.cur

\* ConnectionManager.connect: a new websocket is accepted and registered.
Connect(l) ==
    /\ l \notin active_connections
    /\ l \notin open
    /\ Unreferenced(l)
    /\ active_connections' = active_connections \cup {l}
    /\ open' = open \cup {l}
    /\ received' = (l :> <<>>) @@ received
    /\ UNCHANGED <<workflows, db, conversation_history, task, events, calls, clock, lock, unguarded, returned>>

\* The client of a registered websocket goes away.
ClientClose(l) ==
    /\ l \in open
    /\ open' = open \ {l}
    /\ received' = [c \in (DOMAIN received) \ {l} |-> received[c]]
    /\ UNCHANGED <<workflows, db, conversation_history, active_connections, task, events, calls, clock, lock, unguarded, returned>>

\* ConnectionManager.disconnect, from the endpoint's finally once
\* receive_text has raised WebSocketDisconnect.
Disconnect(l) ==
    /\ l \in active_connections
    /\ l \notin open
    /\ active_connections' = active_connections \ {l}
    /\ UNCHANGED <<workflows, db, conversation_history, open, task, events, calls, clock, received, lock, unguarded, returned>>

\* DELETE /workflows/{id}: the repository's delete_workflow.
DeleteWorkflow(id) ==
    /\ id \in DOMAIN db
    /\ db' = delete_workflow(db, id)
    /\ UNCHANGED <<workflows, conversation_history, active_connections, open, task, events, calls, clock, received, lock, unguarded, returned>>

Next ==
    \/ \E provider \in Providers : StartWorkflow(provider)
    \/ \E id \in DOMAIN task : ExecuteWorkflow(id)
    \/ \E id \in DOMAIN task : StoreDone(id)
    \/ \E id \in DOMAIN task : ConversationSaved(id)
    \/ \E id \in DOMAIN task : AdapterReturns(id)
    \/ \E id \in DOMAIN task : AdapterRaises(id)
    \/ \E id \in DOMAIN task : SendDone(id)
    \/ \E l \in Listeners : Connect(l)
    \/ \E l \in Listeners : ClientClose(l)
    \/ \E l \in Listeners : Disconnect(l)

\* The orchestrator, its tasks and the push channel.  No task reads the
\* store, so what the tasks do in memory is the same with or without deletes.
Spec == Init /\ [][Next]_vars

\* The same with the store's delete requests.
NextStore ==
    \/ Next
    \/ \E id \in WorkflowIds : DeleteWorkflow(id)

SpecStore == Init /\ [][NextStore]_vars

\* ------------------------------------------- the repository by itself
\* A row as the orchestrator leaves it: of a workflow that has not begun, or
\* of one whose architect step completed and whose implement step failed.
StoredRow(workflow_id, created, status) ==
    LET t0 == create_workflow(<<>>, workflow_id, "pending", Requirements(workflow_id), NoneStr, created)
        t1 == update_workflow_status(t0, workflow_id, "running", isoformat(created), NoneVal, NoneStr)
        t2 == update_agent_step(t1, workflow_id, "architect", "completed", isoformat(created),
                                isoformat(created), model_dump(workflow_id, "architect"), NoneStr)
        t3 == update_agent_step(t2, workflow_id, "implement", "failed", isoformat(created),
                                isoformat(created), NoneVal, "Agent execution failed")
        t4 == update_workflow_status(t3, workflow_id, "failed", NoneVal, isoformat(created), "Agent execution failed")
    IN  IF status = "pending" THEN t0[workflow_id] ELSE t4[workflow_id]

RowStatuses == {"pending", "failed"}

\* The store holds any rows 1..n, each created at one of the times and in
\* one of the two conditions; nothing else has happened.
InitRepository ==
    /\ \E n \in 0..MaxRows : \E choice \in [1..n -> (1..MaxCreated) \X RowStatuses] :
          db = [id \in 1..n |-> StoredRow(id, choice[id][1], choice[id][2])]
    /\ workflows = <<>>
    /\ conversation_history = <<>>
    /\ active_connections = {}
    /\ open = {}
    /\ task = <<>>
    /\ events = <<>>
    /\ calls = <<>>
    /\ clock = <<>>
    /\ received = <<>>
    /\ lock = Unlocked
    /\ unguarded = {}
    /\ returned = [call |-> NoneStr]

\* A client's call of a repository method leaves everything but the table
\* as it is; one call is looked at per run.
RepositoryCall ==
    /\ returned.call = NoneStr
    /\ UNCHANGED <<workflows, conversation_history, active_connections, open, task,
                   events, calls, clock, received, lock, unguarded>>

\* GET /workflows: list_workflows(limit, offset, status).
ListWorkflows(limit, offset, status) ==
    /\ RepositoryCall
    /\ \E result \in list_workflows(db, limit, offset, status) :
          returned' = [call |-> "list_workflows",
                       args |-> [limit |-> limit, offset |-> offset, status |-> status],
                       value |-> result]
    /\ UNCHANGED db

\* update_workflow_status(workflow_id, ...): returns None.
UpdateWorkflowStatus(workflow_id, status, started_at, completed_at, error) ==
    /\ RepositoryCall
    /\ db' = update_workflow_status(db, workflow_id, status, started_at, completed_at, error)
    /\ returned' = [call |-> "update_workflow_status",
                    args |-> [workflow_id |-> workflow_id, status |-> status,
                              started_at |-> started_at, completed_at |-> completed_at,
                              error |-> error],
                    value |-> NoneVal]

\* update_agent_step(workflow_id, agent_name, status, ...): returns None.
UpdateAgentStep(workflow_id, agent_name, status, started_at, completed_at, result, error) ==
    /\ RepositoryCall
    /\ db' = update_agent_step(db, workflow_id, agent_name, status, started_at, completed_at, result, error)
    /\ returned' = [call |-> "update_agent_step",
                    args |-> [workflow_id |-> workflow_id, agent_name |-> agent_name,
                              status |-> status, started_at |-> started_at,
                              completed_at |-> completed_at, result |-> result,
                              error |-> error],
                    value |-> NoneVal]

\* start_workflow called in a process that found the table as it is, with
\* uuid4 giving any id: what the caller gets is the id, or the exception of
\* the INSERT.
StartWorkflowCall(workflow_id, provider) ==
    /\ returned.call = NoneStr
    /\ start_workflow(workflow_id, provider)
    /\ returned' = [call |-> "start_workflow",
                    args |-> [uuid4 |-> workflow_id, provider |-> provider],
                    value |-> IF IntegrityError(db, workflow_id)
                              THEN <<"raise", "IntegrityError">>
                              ELSE <<"workflow_id", workflow_id>>]

\* The arguments of the calls: ids with and without a row, page sizes and
\* offsets as GET /workflows accepts them, each optional argument given or
\* None.
RowIds == 1..(MaxRows + 1)
PageLimits == 1..MaxRows
PageOffsets == 0..MaxRows
StatusFilters == {NoneStr, "", "pending", "failed"}
LaterTimes == {NoneVal, isoformat(MaxCreated + 1)}
ErrorArgs == {NoneStr, "Unknown provider"}
ResultArgs == {NoneVal, EmptyDict}

NextRepository ==
    \/ \E limit \in PageLimits, offset \in PageOffsets, status \in StatusFilters :
          ListWorkflows(limit, offset, status)
    \/ \E workflow_id \in RowIds, status \in {NoneStr, "running"},
          started_at \in LaterTimes, completed_at \in LaterTimes, error \in ErrorArgs :
          UpdateWorkflowStatus(workflow_id, status, started_at, completed_at, error)
    \/ \E workflow_id \in RowIds, agent_name \in StageNames, status \in {"in_progress", "completed"},
          started_at \in LaterTimes, completed_at \in LaterTimes, result \in ResultArgs,
          error \in ErrorArgs :
          UpdateAgentStep(workflow_id, agent_name, status, started_at, completed_at, result, error)
    \/ \E workflow_id \in RowIds, provider \in Providers :
          StartWorkflowCall(workflow_id, provider)

SpecRepository == InitRepository /\ [][NextRepository]_vars

\* One workflow's task and the push channel with more websockets.
NextFanout ==
    \/ \E provider \in Providers : workflows = <<>> /\ StartWorkflow(provider)
    \/ \E id \in DOMAIN task : ExecuteWorkflow(id)
    \/ \E id \in DOMAIN task : StoreDone(id)
    \/ \E id \in DOMAIN task : ConversationSaved(id)
    \/ \E id \in DOMAIN task : AdapterReturns(id)
    \/ \E id \in DOMAIN task : AdapterRaises(id)
    \/ \E id \in DOMAIN task : SendDone(id)
    \/ \E l \in FanoutListeners : Connect(l)
    \/ \E l \in FanoutListeners : ClientClose(l)
    \/ \E l \in FanoutListeners : Disconnect(l)

SpecFanout == Init /\ [][NextFanout]_vars

\* ------------------------------------------------------------- claims
\* A step's status in memory: a result that is still None is a step that has
\* not begun.
StepStatusIn(table, id, agent_name) ==
    IF agent_name \in DOMAIN table[id].results
    THEN table[id].results[agent_name].status
    ELSE "pending"

StepStatus(id, agent_name) == StepStatusIn(workflows, id, agent_name)

Invoked(id, agent_name) ==
    \E i \in 1..Len(calls[id]) : calls[id][i].agent_name = agent_name

Outcome(id, agent_name) ==
    IF Invoked(id, agent_name)
    THEN LET i == CHOOSE i \in 1..Len(calls[id]) : calls[id][i].agent_name = agent_name
         IN  calls[id][i].outcome
    ELSE "none"

Terminal == {"completed", "failed"}

\* C1: in every step the in-memory status of every workflow stays what it is
\* or moves pending -> running, running -> completed or running -> failed,
\* and a workflow enters the table as pending: the status never moves
\* backwards, never skips RUNNING and never leaves COMPLETED or FAILED.
C1_StatusMonotonic ==
    [][/\ \A id \in DOMAIN workflows :
             \/ workflows'[id].status = workflows[id].status
             \/ <<workflows[id].status, workflows'[id].status>> \in
                    {<<"pending", "running">>, <<"running", "completed">>,
                     <<"running", "failed">>}
       /\ \A id \in (DOMAIN workflows') \ (DOMAIN workflows) :
             workflows'[id].status = "pending"]_vars

\* Both terminal statuses are reached, by two workflows whose tasks have ended.
C1_Witness ==
    \E a, b \in DOMAIN workflows :
        /\ workflows[a].status = "completed" /\ task[a].at = "done"
        /\ workflows[b].status = "failed" /\ task[b].at = "done"

\* C2: a workflow whose status is COMPLETED, in memory or in its row, has its
\* architect and implement steps COMPLETED and its reviewer and tester steps
\* COMPLETED or FAILED.
C2_CompletedSteps ==
    \A id \in DOMAIN workflows :
        /\ workflows[id].status = "completed" =>
              /\ StepStatus(id, "architect") = "completed"
              /\ StepStatus(id, "implement") = "completed"
              /\ StepStatus(id, "reviewer") \in Terminal
              /\ StepStatus(id, "tester") \in Terminal
        /\ (id \in DOMAIN db /\ db[id].status = "completed") =>
              /\ db[id].steps["architect"].status = "completed"
              /\ db[id].steps["implement"].status = "completed"
              /\ db[id].steps["reviewer"].status \in Terminal
              /\ db[id].steps["tester"].status \in Terminal

\* A workflow COMPLETED in memory and in its row whose reviewer step FAILED.
C2_Witness ==
    \E id \in DOMAIN workflows :
        /\ workflows[id].status = "completed"
        /\ db[id].status = "completed"
        /\ StepStatus(id, "reviewer") = "failed"
        /\ StepStatus(id, "tester") = "completed"

\* C3: a workflow whose status is FAILED, in memory or in its row, has an
\* error and has its architect or its implement step FAILED.
C3_FailedHasCause ==
    \A id \in DOMAIN workflows :
        /\ workflows[id].status = "failed" =>
              /\ workflows[id].error # NoneStr
              /\ \/ StepStatus(id, "architect") = "failed"
                 \/ StepStatus(id, "implement") = "failed"
        /\ (id \in DOMAIN db /\ db[id].status = "failed") =>
              /\ db[id].error # NoneStr
              /\ \/ db[id].steps["architect"].status = "failed"
                 \/ db[id].steps["implement"].status = "failed"

\* A workflow FAILED by its implement step, the architect step COMPLETED.
C3_Witness ==
    \E id \in DOMAIN workflows :
        /\ workflows[id].status = "failed"
        /\ db[id].status = "failed"
        /\ StepStatus(id, "architect") = "completed"
        /\ StepStatus(id, "implement") = "failed"


\* C4: every workflow whose task has ended, other than by an error of the
\* push channel, has a terminal status: whatever provider resolution and the
\* adapters did, it is not left RUNNING.
C4_EndsTerminal ==
    \A id \in DOMAIN task :
        (task[id].at \in Ended /\ task[id].e # SetChanged) =>
            workflows[id].status \in Terminal

\* C5: once the task has ended, a workflow whose architect step FAILED is
\* FAILED with an error, and its implement, reviewer and tester steps never
\* began and their adapters were never invoked.
C5_ArchitectFailureFinal ==
    \A id \in DOMAIN task :
        (task[id].at \in Ended /\ StepStatus(id, "architect") = "failed") =>
            /\ workflows[id].status = "failed"
            /\ workflows[id].error # NoneStr
            /\ \A a \in {"implement", "reviewer", "tester"} :
                  StepStatus(id, a) \in {"pending", "skipped"} /\ ~Invoked(id, a)

\* C6: once the task has ended, a workflow whose architect step COMPLETED and
\* whose implement step FAILED is FAILED with an error, and its reviewer and
\* tester steps never began and their adapters were never invoked.
C6_ImplementFailureFinal ==
    \A id \in DOMAIN task :
        (/\ task[id].at \in Ended
         /\ StepStatus(id, "architect") = "completed"
         /\ StepStatus(id, "implement") = "failed") =>
            /\ workflows[id].status = "failed"
            /\ workflows[id].error # NoneStr
            /\ \A a \in {"reviewer", "tester"} :
                  StepStatus(id, a) = "pending" /\ ~Invoked(id, a)

\* C7: once the task has ended, a workflow whose architect and implement
\* adapters returned and whose reviewer adapter alone raised has had its
\* tester run and is COMPLETED with the reviewer step FAILED and the tester
\* step COMPLETED; one whose tester adapter raised is COMPLETED with the
\* tester step FAILED.
C7_NonFatalFailureFinal ==
    \A id \in DOMAIN task :
        /\ (/\ task[id].at \in Ended
            /\ Outcome(id, "architect") = "returned"
            /\ Outcome(id, "implement") = "returned"
            /\ Outcome(id, "reviewer") = "raised"
            /\ Outcome(id, "tester") # "raised") =>
               /\ Invoked(id, "tester")
               /\ workflows[id].status = "completed"
               /\ StepStatus(id, "reviewer") = "failed"
               /\ StepStatus(id, "tester") = "completed"
        /\ (task[id].at \in Ended /\ Outcome(id, "tester") = "raised") =>
               /\ workflows[id].status = "completed"
               /\ StepStatus(id, "tester") = "failed"

\* C8: in every step each step's in-memory status stays what it is or moves
\* pending -> in_progress, in_progress -> completed or in_progress -> failed.
C8_StepMonotonic ==
    [][\A id \in DOMAIN workflows : \A a \in StageNames :
          \/ StepStatusIn(workflows', id, a) = StepStatusIn(workflows, id, a)
          \/ <<StepStatusIn(workflows, id, a), StepStatusIn(workflows', id, a)>> \in
                 {<<"pending", "in_progress">>, <<"in_progress", "completed">>,
                  <<"in_progress", "failed">>}]_vars

\* The stage that must have ended before a stage may begin.
Before(agent_name) == Stages[StageIndex(agent_name) - 1]

\* C9: whenever a step enters IN_PROGRESS, the step before it in the order
\* architect, implement, reviewer, tester is COMPLETED, or, for the tester,
\* the reviewer step is COMPLETED or FAILED; no other step of the workflow is
\* IN_PROGRESS, and the steps after it have not begun.
C9_PipelineOrder ==
    [][\A id \in DOMAIN workflows : \A a \in StageNames :
          (/\ StepStatusIn(workflows', id, a) = "in_progress"
           /\ StepStatusIn(workflows, id, a) # "in_progress") =>
              /\ a # "architect" =>
                    \/ StepStatusIn(workflows, id, Before(a)) = "completed"
                    \/ /\ a = "tester"
                       /\ StepStatusIn(workflows, id, Before(a)) = "failed"
              /\ \A b \in StageNames \ {a} :
                    /\ StepStatusIn(workflows, id, b) # "in_progress"
                    /\ StageIndex(b) > StageIndex(a) =>
                          StepStatusIn(workflows, id, b) = "pending"]_vars

\* The tester step is IN_PROGRESS after the reviewer step FAILED.
C9_Witness ==
    \E id \in DOMAIN workflows :
        /\ StepStatus(id, "tester") = "in_progress"
        /\ StepStatus(id, "reviewer") = "failed"
        /\ StepStatus(id, "implement") = "completed"

\* C10: the step in which start_workflow returns an id leaves a row for the
\* id with status pending and all four steps pending, an in-memory entry with
\* status pending and no step result, and the id's task created but not yet
\* run: it has made no transition, store write, broadcast or adapter call.
C10_StartReturnsPending ==
    [][\A id \in (DOMAIN workflows') \ (DOMAIN workflows) :
          /\ id \in DOMAIN db'
          /\ db'[id].status = "pending"
          /\ \A a \in StageNames : db'[id].steps[a].status = "pending"
          /\ workflows'[id].status = "pending"
          /\ DOMAIN workflows'[id].results = {}
          /\ task'[id].at = "scheduled"
          /\ events'[id] = <<>>
          /\ calls'[id] = <<>>
          /\ conversation_history'[id] = <<>>]_vars

\* start_workflow has returned an id whose task has not run yet, while the
\* task of a workflow started earlier is inside an adapter call.
C10_Witness ==
    \E id, other \in DOMAIN workflows :
        /\ task[id].at = "scheduled"
        /\ workflows[id].status = "pending"
        /\ db[id].status = "pending"
        /\ task[other].at = "exec"

\* The store writes that follow a change of one step's status.
StepStorePoints == {"w_start", "w_complete", "w_fail"}

\* The in-memory statuses the transition behind each store write has made:
\* the workflow's and, for a step's transition, the step's.
TransitionStatus ==
    [w_running |-> "running", w_start |-> "in_progress", w_complete |-> "completed",
     w_fail |-> "failed", w_failwf |-> "failed", w_completed |-> "completed"]

\* C11: every transition of a workflow is followed by exactly one
\* workflow_update broadcast for its id: the broadcasts a task has issued
\* are as many as the transitions it has made, less the one whose store
\* write is still in progress; a step in which a workflow's task issues a
\* broadcast issues one, on completing the store write of a transition, with
\* the workflow's in-memory status, and for a step's transition with status
\* running and current_step the step that changed.
C11_OneBroadcastPerTransition ==
    /\ [](\A id \in DOMAIN task :
            Len(events[id]) + (IF task[id].at \in StorePoints THEN 1 ELSE 0)
                = clock[id] - 2)
    /\ [][\A id \in DOMAIN task :
            /\ (workflows'[id] # workflows[id]) => task'[id].at \in StorePoints
            /\ (events'[id] # events[id]) =>
                 LET at == task[id].at
                     event == events'[id][Len(events'[id])]
                 IN  /\ events'[id] = Append(events[id], event)
                     /\ at \in StorePoints
                     /\ event.status = workflows[id].status
                     /\ IF at \in StepStorePoints
                        THEN /\ event.status = "running"
                             /\ event.current_step = task[id].stage
                             /\ StepStatus(id, task[id].stage) = TransitionStatus[at]
                        ELSE /\ event.current_step = NoneStr
                             /\ event.status = TransitionStatus[at]]_vars

\* A workflow's task has finished after the reviewer failed: ten transitions
\* and ten broadcasts.
C11_Witness ==
    \E id \in DOMAIN task :
        /\ task[id].at = "done"
        /\ workflows[id].status = "completed"
        /\ StepStatus(id, "reviewer") = "failed"
        /\ Len(events[id]) = 10

\* The row of a workflow holds the statuses its in-memory state `state` has.
PersistedIn(rows, state, id) ==
    /\ id \in DOMAIN rows
    /\ rows[id].status = state[id].status
    /\ \A a \in StageNames : rows[id].steps[a].status = StepStatusIn(state, id, a)

\* C12: when a workflow's task makes a transition, the store write of every
\* earlier transition of the workflow has been made (the row holds the state
\* the transition starts from), the broadcast of every earlier transition has
\* been issued, and no broadcast of the workflow is still in progress; and
\* each event a client gets from a workflow is a later one than the last it
\* got from that workflow.
C12_SameOrder ==
    [][/\ \A id \in DOMAIN task :
            (workflows'[id] # workflows[id]) =>
               /\ PersistedIn(db', workflows, id)
               /\ Len(events'[id]) = clock[id] - 2
               /\ task'[id].it = NoIter
       /\ \A l \in DOMAIN received' : \A id \in DOMAIN received'[l] :
            (l \notin DOMAIN received \/ id \notin DOMAIN received[l]
                \/ received'[l][id] # received[l][id]) =>
               /\ received'[l][id] = Len(events[id])
               /\ (l \in DOMAIN received /\ id \in DOMAIN received[l]) =>
                     received'[l][id] > received[l][id]]_vars

\* A client has got the tenth event of one workflow and the second of the
\* other, whose third is being sent to it.
C12_Witness ==
    \E l \in DOMAIN received : \E id, other \in DOMAIN received[l] :
        /\ id # other
        /\ received[l][id] = 10
        /\ received[l][other] = 2
        /\ Len(events[other]) = 3
        /\ task[other].at \in BroadcastPoints
        /\ task[other].it.cur = l

\* The keyword arguments of an adapter call that carry earlier results.
CallInputs(call) == (DOMAIN call) \ {"agent_name", "outcome"}

\* C13: a step of one workflow's task leaves every other workflow's
\* in-memory entry, row, conversation rows, events and adapter calls as they
\* were; and the inputs of every adapter call of a workflow are that
\* workflow's requirements and the outputs of that workflow's own earlier
\* stages (the review being the reviewer's output or None).
C13_NoCrossContamination ==
    /\ [][\A id \in DOMAIN task : (task'[id] # task[id]) =>
            \A other \in (DOMAIN task) \ {id} :
                /\ workflows'[other] = workflows[other]
                /\ db'[other] = db[other]
                /\ conversation_history'[other] = conversation_history[other]
                /\ events'[other] = events[other]
                /\ calls'[other] = calls[other]
                /\ task'[other] = task[other]]_vars
    /\ [](\A id \in DOMAIN calls : \A i \in 1..Len(calls[id]) :
            LET call == calls[id][i]
            IN  /\ call.requirements = db[id].requirements
                /\ call.requirements = workflows[id].requirements
                /\ "architecture" \in CallInputs(call) =>
                      call.architecture = workflows[id].results["architect"].result
                /\ "implementation" \in CallInputs(call) =>
                      call.implementation = workflows[id].results["implement"].result
                /\ "review" \in CallInputs(call) =>
                      call.review \in {NoneVal, model_dump(id, "reviewer")})

\* Two workflows with different requirements are both inside an adapter
\* call, of different stages.
C13_Witness ==
    \E id, other \in DOMAIN task :
        /\ id # other
        /\ workflows[id].requirements # workflows[other].requirements
        /\ task[id].at = "exec" /\ task[id].stage = "tester"
        /\ task[other].at = "exec" /\ task[other].stage = "implement"

\* The awaits of an execution task: an adapter call, a store operation or a
\* send of a broadcast is in progress.
AwaitPoints == {"exec"} \cup StorePoints \cup ConversationPoints \cup BroadcastPoints

\* C14: the lock has no holder or one task as its holder; no task holds it
\* while it is suspended in an adapter call, a store operation or a
\* broadcast; and no in-memory WorkflowState has been assigned to by a task
\* that did not hold the lock.
C14_LockDiscipline ==
    /\ lock \in {Unlocked} \cup DOMAIN task
    /\ \A id \in DOMAIN task : task[id].at \in AwaitPoints => lock # id
    /\ unguarded = {}

\* One task is inside an adapter call and the other inside a broadcast after
\* it failed its workflow under the lock.
C14_Witness ==
    \E id, other \in DOMAIN task :
        /\ task[id].at = "exec"
        /\ task[other].at = "b_failwf"
        /\ task[other].it # NoIter
        /\ workflows[other].status = "failed"
        /\ lock = Unlocked

\* The websockets whose send has failed in the broadcast a task is in,
\* counting the send in progress when its client has gone.
FailedSends(id) ==
    task[id].it.disconnected \cup
        (IF task[id].it.cur \in open THEN {} ELSE {task[id].it.cur})

\* The step ends the broadcast task id is in.
BroadcastEnds(id) == task[id].it # NoIter /\ task'[id].it = NoIter

\* The step ends the broadcast task id is in by an exception: the task goes
\* to an except handler's _fail_step or ends.
BroadcastRaises(id) == BroadcastEnds(id) /\ task'[id].at \in {"w_fail", "crashed"}

\* C15: when a broadcast ends in which the send to a websocket that is
\* still registered failed, the broadcast returns to its caller, the
\* websockets whose send failed are no longer registered, and every
\* websocket registered when the broadcast began whose client is still
\* connected has got the event; and an event only ever reaches a websocket
\* that is registered.
C15_FailedSendIsolated ==
    [][/\ \A id \in DOMAIN task :
            (BroadcastEnds(id) /\ FailedSends(id) \cap active_connections # {}) =>
               /\ ~BroadcastRaises(id)
               /\ FailedSends(id) \cap active_connections' = {}
               /\ \A l \in task[id].it.snap \cap open :
                     l \in DOMAIN received' /\ id \in DOMAIN received'[l]
                        /\ received'[l][id] = Len(events[id])
       /\ \A l \in (DOMAIN received') \cap (DOMAIN received) :
            (received'[l] # received[l]) => l \in active_connections]_vars

\* C16: no execution task has had an exception of the broadcast loop raised
\* into it: none has ended by one, and no step has been marked FAILED with
\* one as its error.
C16_BroadcastNeverRaises ==
    \A id \in DOMAIN task :
        /\ task[id].e # SetChanged
        /\ \A a \in DOMAIN workflows[id].results :
              workflows[id].results[a].error # SetChanged

\* The workflows that were started and whose row has been deleted since.
Deleted == (DOMAIN workflows) \ (DOMAIN db)

\* The page sizes and offsets GET /workflows accepts (limit >= 1, offset >=
\* 0), up to the number of workflows.
Limits == 1..MaxWorkflows
Offsets == 0..MaxWorkflows

\* C17: once a workflow's row has been deleted, get reports it absent, no
\* list result contains it, and the store holds no conversation message of
\* it, also while its execution task is still running.
C17_DeletedIsGone ==
    \A id \in Deleted :
        /\ get_workflow(db, id) = NoneVal
        /\ \A limit \in Limits : \A offset \in Offsets :
              \A result \in list_workflows(db, limit, offset, NoneStr) :
                 \A i \in 1..Len(result) : result[i].workflow_id # id
        /\ conversation_history[id] = <<>>

\* The time a row was created at.
CreatedAt(id) == db[id].created_at[2]

\* The rows a list call with a status filter is about: all of them when the
\* filter is missing or empty.
Filtered(status) ==
    {id \in DOMAIN db : status \in {NoneStr, ""} \/ db[id].status = status}

\* C18: what list_workflows(limit, offset, status) returned has at most
\* limit records, each of a different row that passes the filter (any row
\* when the filter is missing or empty) and showing that row's columns, in
\* descending order of created_at; the rows that pass the filter and are not
\* in it are the first offset rows of that order (all of them when there are
\* fewer), none created after a returned one, and rows that come after every
\* returned one, which are only left out when the page is full.
C18_ListPage ==
    returned.call = "list_workflows" =>
        LET limit == returned.args.limit
            offset == returned.args.offset
            page == returned.value
            ids == {page[i].workflow_id : i \in 1..Len(page)}
            rest == Filtered(returned.args.status) \ ids
        IN  /\ Len(page) <= limit
            /\ Cardinality(ids) = Len(page)
            /\ ids \subseteq Filtered(returned.args.status)
            /\ \A i \in 1..Len(page) :
                  page[i] = row_to_workflow_list_item(page[i].workflow_id, db[page[i].workflow_id])
            /\ \A i, j \in 1..Len(page) : i < j =>
                  CreatedAt(page[i].workflow_id) >= CreatedAt(page[j].workflow_id)
            /\ \E skipped \in SUBSET rest :
                  /\ Cardinality(skipped) =
                        Min(offset, Cardinality(Filtered(returned.args.status)))
                  /\ \A b \in skipped : \A v \in ids : CreatedAt(b) >= CreatedAt(v)
                  /\ \A a \in rest \ skipped : \A v \in ids \cup skipped :
                        CreatedAt(a) <= CreatedAt(v)
                  /\ (rest \ skipped # {}) => Len(page) = limit

\* A list of the pending rows with limit 1 and offset 1 returned the older
\* of two pending rows created at different times, the store holding a
\* failed row beside them.
C18_Witness ==
    /\ returned.call = "list_workflows"
    /\ returned.args = [limit |-> 1, offset |-> 1, status |-> "pending"]
    /\ Len(returned.value) = 1
    /\ Cardinality(Filtered("pending")) = 2
    /\ Cardinality(DOMAIN db) = 3
    /\ \E a \in Filtered("pending") : CreatedAt(a) > CreatedAt(returned.value[1].workflow_id)

\* The columns of a row that belong to no step.
WorkflowColumns == {"status", "requirements", "provider", "created_at",
                    "started_at", "completed_at", "error"}

\* A column after an update: the value supplied or, when None was supplied,
\* what it held.
Kept(old, new, supplied, none) == new = (IF supplied = none THEN old ELSE supplied)

\* C19: a call of update_workflow_status or update_agent_step leaves every
\* other row, and the set of rows, as it was; in the addressed row
\* update_workflow_status changes none of the step columns and of status,
\* started_at, completed_at and error only those supplied, and
\* update_agent_step changes no workflow column and no other stage's
\* columns, and of the stage's own columns the status and those supplied.
C19_PartialUpdate ==
    [][(returned.call = NoneStr /\ returned'.call \in {"update_workflow_status", "update_agent_step"}) =>
          LET args == returned'.args
              id == args.workflow_id
          IN  /\ DOMAIN db' = DOMAIN db
              /\ \A other \in (DOMAIN db) \ {id} : db'[other] = db[other]
              /\ id \in DOMAIN db =>
                   IF returned'.call = "update_workflow_status"
                   THEN /\ db'[id].steps = db[id].steps
                        /\ \A c \in {"requirements", "provider", "created_at"} :
                              db'[id][c] = db[id][c]
                        /\ Kept(db[id].status, db'[id].status, args.status, NoneStr)
                        /\ Kept(db[id].started_at, db'[id].started_at, args.started_at, NoneVal)
                        /\ Kept(db[id].completed_at, db'[id].completed_at, args.completed_at, NoneVal)
                        /\ Kept(db[id].error, db'[id].error, args.error, NoneStr)
                   ELSE LET old == db[id].steps[args.agent_name]
                            new == db'[id].steps[args.agent_name]
                        IN  /\ \A c \in WorkflowColumns : db'[id][c] = db[id][c]
                            /\ \A a \in StageNames \ {args.agent_name} :
                                  db'[id].steps[a] = db[id].steps[a]
                            /\ new.status = args.status
                            /\ Kept(old.started_at, new.started_at, args.started_at, NoneVal)
                            /\ Kept(old.completed_at, new.completed_at, args.completed_at, NoneVal)
                            /\ Kept(old.error, new.error, args.error, NoneStr)
                            /\ new.result = (IF args.result = NoneVal THEN old.result
                                             ELSE json_dumps(args.result))]_vars

\* update_agent_step was called for the architect step of a failed row with
\* no result and no timestamps: the step keeps its result, the implement
\* step its error, and the store has another row.
C19_Witness ==
    /\ returned.call = "update_agent_step"
    /\ returned.args.workflow_id \in DOMAIN db
    /\ returned.args.agent_name = "architect"
    /\ returned.args.status = "in_progress"
    /\ returned.args.result = NoneVal
    /\ returned.args.started_at = NoneVal
    /\ db[returned.args.workflow_id].steps["architect"].status = "in_progress"
    /\ db[returned.args.workflow_id].steps["architect"].result # NoneVal
    /\ db[returned.args.workflow_id].steps["implement"].error # NoneStr
    /\ db[returned.args.workflow_id].status = "failed"
    /\ Cardinality(DOMAIN db) > 1

\* C20: update_workflow_status called with an id that has no row fails with
\* NotFound (the call ends with that exception in place of a return value)
\* and leaves the table as it was.
C20_UpdateUnknownFails ==
    [][(/\ returned.call = NoneStr
        /\ returned'.call = "update_workflow_status"
        /\ returned'.args.workflow_id \notin DOMAIN db) =>
           /\ returned'.value = <<"raise", "NotFound">>
           /\ db' = db]_vars

\* C21: a call of start_workflow whose id has no row inserts one row, with
\* status pending and the four steps pending, adds the in-memory state and
\* schedules one task; a call whose id has a row fails, and leaves every
\* row, the in-memory table and the tasks as they were.
C21_CreateOnceOrFail ==
    [][(returned.call = NoneStr /\ returned'.call = "start_workflow") =>
          LET id == returned'.args.uuid4
          IN  IF id \in DOMAIN db
              THEN /\ returned'.value = <<"raise", "IntegrityError">>
                   /\ db' = db
                   /\ workflows' = workflows
                   /\ task' = task
              ELSE /\ returned'.value = <<"workflow_id", id>>
                   /\ DOMAIN db' = (DOMAIN db) \cup {id}
                   /\ \A other \in DOMAIN db : db'[other] = db[other]
                   /\ db'[id].status = "pending"
                   /\ \A a \in StageNames : db'[id].steps[a].status = "pending"
                   /\ DOMAIN workflows' = (DOMAIN workflows) \cup {id}
                   /\ DOMAIN task' = (DOMAIN task) \cup {id}
                   /\ task'[id].at = "scheduled"]_vars

\* start_workflow was given the id of a failed workflow's row: it raised,
\* the row is as it was and there is no in-memory state and no task.
C21_Witness ==
    /\ returned.call = "start_workflow"
    /\ returned.value = <<"raise", "IntegrityError">>
    /\ returned.args.uuid4 \in DOMAIN db
    /\ db[returned.args.uuid4] = StoredRow(returned.args.uuid4, 1, "failed")
    /\ workflows = <<>>
    /\ task = <<>>

\* ------------------------------------------------ GET /workflow/{id}
\* WorkflowOrchestrator.get_workflow_status: self._workflows.get(id), read
\* under the lock.  No task holds the lock across an await, so the request
\* reads the table as it is between two segments.  The Optional it returns
\* is a sequence here: empty for None, else of the one WorkflowState.
get_workflow_status(table, workflow_id) ==
    IF workflow_id \in DOMAIN table THEN <<table[workflow_id]>> ELSE <<>>

\* The status endpoint reporting no current step at all.
current_step_none(workflow) == NoneStr

\* "Determine current step" (api/orchestration.py lines 77-86): the first
\* stage, in pipeline order, that has a result whose status is in_progress.
current_step(workflow) ==
    LET in_progress(a) == a \in DOMAIN workflow.results
                          /\ workflow.results[a].status = "in_progress"
    IN  IF \E i \in 1..4 : in_progress(Stages[i])
        THEN Stages[CHOOSE i \in 1..4 :
                       /\ in_progress(Stages[i])
                       /\ \A j \in 1..(i - 1) : ~in_progress(Stages[j])]
        ELSE NoneStr

\* The status endpoint: HTTPException(404) for an id the orchestrator does
\* not have, else the WorkflowStatusResponse.
GetWorkflowStatus(table, workflow_id) ==
    LET found == get_workflow_status(table, workflow_id)
        workflow == found[1]
    IN  IF found = <<>> THEN [status_code |-> 404]
        ELSE [status_code |-> 200, workflow_id |-> workflow_id,
              status |-> workflow.status, created_at |-> workflow.created_at,
              started_at |-> workflow.started_at,
              completed_at |-> workflow.completed_at,
              current_step |-> current_step(workflow), error |-> workflow.error]

\* The results endpoint answering whatever the status is.
not_completed_never(workflow) == FALSE

\* workflow.status != WorkflowStatus.COMPLETED (line 121)
not_completed(workflow) == workflow.status # "completed"

\* "<agent>_result.result if <agent>_result else None"
step_result_or_none(workflow, agent_name) ==
    IF agent_name \in DOMAIN workflow.results
    THEN workflow.results[agent_name].result
    ELSE NoneVal

\* The results endpoint: HTTPException(404) for an id the orchestrator does
\* not have, HTTPException(400) for a workflow that is not COMPLETED, else
\* the WorkflowResultsResponse.
GetWorkflowResults(table, workflow_id) ==
    LET found == get_workflow_status(table, workflow_id)
        workflow == found[1]
    IN  IF found = <<>> THEN [status_code |-> 404]
        ELSE IF not_completed(workflow) THEN [status_code |-> 400]
        ELSE [status_code |-> 200, workflow_id |-> workflow_id,
              status |-> workflow.status,
              results |-> [a \in StageNames |-> step_result_or_none(workflow, a)],
              completed_at |-> workflow.completed_at]

\* C22: in every state and for every id, the results request answers 404
\* when the orchestrator has no workflow of that id, 400 when it has one
\* that is pending, running or failed, and 200 with the result of each of
\* the four steps when it has one that is completed; the status request
\* answers 404 exactly when the orchestrator has no workflow of that id.
C22_ResultsOnlyWhenCompleted ==
    \A id \in WorkflowIds :
        LET results == GetWorkflowResults(workflows, id)
            status == GetWorkflowStatus(workflows, id)
        IN  /\ (status.status_code = 404) <=> (id \notin DOMAIN workflows)
            /\ id \notin DOMAIN workflows => results.status_code = 404
            /\ id \in DOMAIN workflows =>
                  /\ workflows[id].status \in {"pending", "running", "failed"} =>
                        results.status_code = 400
                  /\ workflows[id].status = "completed" =>
                        /\ results.status_code = 200
                        /\ \A a \in StageNames :
                              results.results[a] =
                                 (IF StepStatus(id, a) = "completed"
                                  THEN workflows[id].results[a].result ELSE NoneVal)
                  /\ results.status_code = 200 => workflows[id].status = "completed"

\* One workflow is completed with its reviewer step failed (its results are
\* returned, the reviewer's being None), another is failed (400), and so
\* each of the two requests has an id it answers 200 and one it refuses.
C22_Witness ==
    \E a, b \in DOMAIN workflows :
        /\ GetWorkflowResults(workflows, a).status_code = 200
        /\ GetWorkflowResults(workflows, a).results["reviewer"] = NoneVal
        /\ GetWorkflowResults(workflows, a).results["architect"] = model_dump(a, "architect")
        /\ workflows[b].status = "failed"
        /\ GetWorkflowResults(workflows, b).status_code = 400
        /\ GetWorkflowStatus(workflows, b).status_code = 200

\* The steps of a workflow that are in_progress, in memory and in its row.
InProgress(id) == {a \in StageNames : StepStatus(id, a) = "in_progress"}
InProgressStored(id) == {a \in StageNames : db[id].steps[a].status = "in_progress"}

\* C23: a workflow has at most one step in_progress, in memory and in its
\* row; the current_step of the status request is the in-memory step that
\* is in_progress, and that of the store's get_workflow and list_workflows
\* is the row's, each None when there is no such step; while the task of a
\* running workflow is inside the adapter call of a stage, all of them
\* report that stage.
C23_CurrentStepIsInProgress ==
    \A id \in DOMAIN workflows :
        LET reported == GetWorkflowStatus(workflows, id).current_step
            detail == get_workflow(db, id).current_step
            item == row_to_workflow_list_item(id, db[id]).current_step
        IN  /\ Cardinality(InProgress(id)) <= 1
            /\ Cardinality(InProgressStored(id)) <= 1
            /\ IF InProgress(id) = {} THEN reported = NoneStr
               ELSE InProgress(id) = {reported}
            /\ IF InProgressStored(id) = {} THEN detail = NoneStr /\ item = NoneStr
               ELSE InProgressStored(id) = {detail} /\ item = detail
            /\ (workflows[id].status = "running" /\ task[id].at = "exec") =>
                  /\ reported = task[id].stage
                  /\ detail = task[id].stage
                  /\ item = task[id].stage

\* One task is inside the reviewer's adapter call and reviewer is reported
\* from memory and from the row; the other workflow is completed and its
\* current_step is None.
C23_Witness ==
    \E a, b \in DOMAIN workflows :
        /\ task[a].at = "exec" /\ task[a].stage = "reviewer"
        /\ GetWorkflowStatus(workflows, a).current_step = "reviewer"
        /\ get_workflow(db, a).current_step = "reviewer"
        /\ workflows[b].status = "completed"
        /\ GetWorkflowStatus(workflows, b).current_step = NoneStr
        /\ get_workflow(db, b).current_step = NoneStr

\* The steps that are never attempted once the step of a fatal stage failed.
NeverAttempted(agent_name) ==
    {Stages[i] : i \in (StageIndex(agent_name) + 1)..4}

\* C24: once the task of a workflow has returned, if the step of a fatal
\* stage (architect, implement) is failed then every later step has status
\* skipped, in memory and in the row.
C24_UnattemptedAreSkipped ==
    \A id \in DOMAIN task :
        task[id].at = "done" =>
            \A a \in FatalStages :
                StepStatus(id, a) = "failed" =>
                    \A later \in NeverAttempted(a) :
                        /\ StepStatus(id, later) = "skipped"
                        /\ db[id].steps[later].status = "skipped"

\* C25: a step that enters in_progress gets the time of that step as its
\* started_at; a step that goes from in_progress to completed or failed
\* keeps that started_at and gets the time of this step as its completed_at,
\* which is not earlier; the workflow's started_at and completed_at, once
\* set, do not change, and started_at is not later than completed_at when
\* both are set.
C25_Timestamps ==
    [][\A id \in DOMAIN workflows :
          /\ \A a \in StageNames :
                /\ (StepStatus(id, a) # "in_progress"
                    /\ StepStatusIn(workflows', id, a) = "in_progress") =>
                       workflows'[id].results[a].started_at = clock[id]
                /\ (StepStatus(id, a) = "in_progress"
                    /\ StepStatusIn(workflows', id, a) \in Terminal) =>
                       /\ workflows'[id].results[a].started_at = workflows[id].results[a].started_at
                       /\ workflows'[id].results[a].completed_at = clock[id]
                       /\ workflows'[id].results[a].started_at <= workflows'[id].results[a].completed_at
          /\ workflows[id].started_at # NoneTime =>
                workflows'[id].started_at = workflows[id].started_at
          /\ workflows[id].completed_at # NoneTime =>
                workflows'[id].completed_at = workflows[id].completed_at
          /\ (workflows'[id].started_at # NoneTime /\ workflows'[id].completed_at # NoneTime) =>
                workflows'[id].started_at <= workflows'[id].completed_at]_vars

\* C26: in every state, in memory and in the row alike, a step has a result
\* only if its status is completed and an error only if its status is
\* failed, and the workflow has an error only if its status is failed.
C26_ResultAndErrorMatchStatus ==
    \A id \in DOMAIN workflows :
        /\ \A a \in DOMAIN workflows[id].results :
              /\ workflows[id].results[a].result # NoneVal => StepStatus(id, a) = "completed"
              /\ workflows[id].results[a].error # NoneStr => StepStatus(id, a) = "failed"
        /\ workflows[id].error # NoneStr => workflows[id].status = "failed"
        /\ \A a \in StageNames :
              /\ db[id].steps[a].result # NoneVal => db[id].steps[a].status = "completed"
              /\ db[id].steps[a].error # NoneStr => db[id].steps[a].status = "failed"
        /\ db[id].error # NoneStr => db[id].status = "failed"

\* ------------------------------- the ConnectionManager and its callers
\* set.discard that removes nothing.
discard_nothing(connections, websocket) == connections

\* self._active_connections.discard(websocket): no error when the
\* websocket is not in the set.
discard(connections, websocket) == connections \ {websocket}

\* self._active_connections.add(websocket): a set holds an element once.
add(connections, websocket) == connections \cup {websocket}

\* connect(websocket) called with a new websocket, as the endpoint does, or
\* with one that is registered already.  websocket.accept() on a websocket
\* accepted before is the framework's: it returns, and line 22 adds the
\* websocket again, or it raises and line 22 is not reached.
ConnectCall(l) ==
    /\ \/ /\ l \notin active_connections
          /\ l \notin open
          /\ Unreferenced(l)
          /\ active_connections' = add(active_connections, l)
          /\ open' = open \cup {l}
          /\ received' = (l :> <<>>) @@ received
          /\ returned' = [call |-> "connect", args |-> [websocket |-> l], value |-> "None"]
       \/ /\ l \in active_connections
          /\ l \in open
          /\ \E accepted \in BOOLEAN :
                /\ active_connections' = IF accepted THEN add(active_connections, l)
                                         ELSE active_connections
                /\ returned' = [call |-> "connect", args |-> [websocket |-> l],
                                value |-> IF accepted THEN "None" ELSE "raise"]
          /\ UNCHANGED <<open, received>>
    /\ UNCHANGED <<workflows, db, conversation_history, task, events, calls, clock, lock, unguarded>>

\* disconnect(websocket), from the endpoint's finally once the client has
\* gone: the websocket is registered still, or a broadcast whose send to
\* it failed has removed it already (line 51).
DisconnectCall(l) ==
    /\ l \notin open
    /\ active_connections' = discard(active_connections, l)
    /\ returned' = [call |-> "disconnect", args |-> [websocket |-> l], value |-> "None"]
    /\ UNCHANGED <<workflows, db, conversation_history, open, task, events, calls, clock, received, lock, unguarded>>

\* One workflow's task and the push channel, the last call of connect or
\* disconnect being kept in `returned`.
NextManager ==
    \/ \E provider \in Providers : workflows = <<>> /\ StartWorkflow(provider)
    \/ \E id \in DOMAIN task : ExecuteWorkflow(id)
    \/ \E id \in DOMAIN task : StoreDone(id)
    \/ \E id \in DOMAIN task : ConversationSaved(id)
    \/ \E id \in DOMAIN task : AdapterReturns(id)
    \/ \E id \in DOMAIN task : AdapterRaises(id)
    \/ \E id \in DOMAIN task : SendDone(id)
    \/ \E l \in FanoutListeners : ConnectCall(l)
    \/ \E l \in FanoutListeners : ClientClose(l)
    \/ \E l \in FanoutListeners : DisconnectCall(l)

SpecManager == Init /\ [][NextManager]_vars

\* The position of the last event of workflow id that websocket l got.
LastGot(l, id) == IF id \in DOMAIN received[l] THEN received[l][id] ELSE 0

\* A step in which the broadcast of task id takes a websocket to send to,
\* on beginning its loop or on going on with it.
Takes(id) ==
    /\ task'[id].it # NoIter
    /\ task'[id].it # task[id].it

\* C27: connect called with a websocket that is registered leaves the
\* registry as it is; disconnect called with a websocket that is not
\* registered changes nothing; a send that delivers an event to a websocket
\* delivers one the websocket has not got yet, so a broadcast delivers to
\* it at most once; and while the last call of connect or disconnect is
\* the disconnect of a websocket, no broadcast that begins has it in the
\* set it iterates and no broadcast takes it to send to.
C27_RegisterIdempotentUnregisterFinal ==
    [][/\ (returned' # returned /\ returned'.call = "connect"
           /\ returned'.args.websocket \in active_connections) =>
               /\ active_connections' = active_connections
               /\ received' = received
       /\ (returned' # returned /\ returned'.call = "disconnect"
           /\ returned'.args.websocket \notin active_connections) =>
               UNCHANGED <<workflows, db, conversation_history, active_connections,
                           open, task, events, calls, clock, received, lock, unguarded>>
       /\ \A id \in DOMAIN task :
             (/\ task[id].at \in BroadcastPoints
              /\ task'[id] # task[id]
              /\ task[id].it.cur \in open) =>
                 /\ LastGot(task[id].it.cur, id) < Len(events[id])
                 /\ received'[task[id].it.cur][id] = Len(events[id])
       /\ (returned.call = "disconnect" /\ returned' = returned) =>
             \A id \in DOMAIN task' :
                 /\ (id \in DOMAIN task /\ Takes(id)) =>
                       task'[id].it.cur # returned.args.websocket
                 /\ (id \in DOMAIN task /\ task[id].it = NoIter /\ task'[id].it # NoIter) =>
                       returned.args.websocket \notin task'[id].it.snap]_vars

\* Websocket 1 was registered and got events, its client went and it was
\* unregistered; a broadcast that began afterwards is sending to websocket
\* 2, the only one in the set it iterates.
C27_Witness ==
    /\ returned.call = "disconnect"
    /\ returned.args.websocket = 1
    /\ active_connections = {2}
    /\ 2 \in open
    /\ \E id \in DOMAIN task :
          /\ task[id].at = "b_complete"
          /\ task[id].it # NoIter
          /\ task[id].it.snap = {2}
          /\ task[id].it.cur = 2
          /\ LastGot(2, id) = Len(events[id]) - 1
          /\ LastGot(2, id) > 0

\* The rows of a workflow's conversation once its task has returned: the
\* requirements, then the prompt and the response of each stage whose step
\* is completed, in pipeline order.
StageMessages(id, agent_name) ==
    IF StepStatus(id, agent_name) = "completed"
    THEN <<[agent_name |-> agent_name, role |-> "user",
            content |-> Prompt(Machine(id), agent_name)],
           [agent_name |-> agent_name, role |-> "assistant",
            content |-> Response(Machine(id), agent_name)]>>
    ELSE <<>>

Conversation(id) ==
    <<[agent_name |-> "system", role |-> "user", content |-> workflows[id].requirements]>>
    \o StageMessages(id, "architect") \o StageMessages(id, "implement")
    \o StageMessages(id, "reviewer") \o StageMessages(id, "tester")

IsPrefix(s, t) == Len(s) <= Len(t) /\ SubSeq(t, 1, Len(s)) = s

C29_EarlierResultsPassed ==
    \A id \in DOMAIN calls : \A i \in 1..Len(calls[id]) :
        LET call == calls[id][i]
            result(a) == workflows[id].results[a].result
        IN  /\ call.agent_name = "architect" => CallInputs(call) = {"requirements"}
            /\ call.agent_name = "implement" =>
                  /\ CallInputs(call) = {"requirements", "architecture"}
                  /\ call.architecture = result("architect")
            /\ call.agent_name = "reviewer" =>
                  /\ CallInputs(call) = {"requirements", "architecture", "implementation"}
                  /\ call.architecture = result("architect")
                  /\ call.implementation = result("implement")
            /\ call.agent_name = "tester" =>
                  /\ CallInputs(call) = {"requirements", "architecture", "implementation", "review"}
                  /\ call.architecture = result("architect")
                  /\ call.implementation = result("implement")
                  /\ StepStatus(id, "reviewer") = "completed" => call.review = result("reviewer")
                  /\ StepStatus(id, "reviewer") = "failed" => call.review = NoneVal
                  /\ call.review = NoneVal => StepStatus(id, "reviewer") = "failed"

\* asyncio.create_task: the event loop runs a task it was given.
SpecLive ==
    Spec /\ \A id \in WorkflowIds : WF_vars(id \in DOMAIN task /\ ExecuteWorkflow(id))

\* C30: a workflow is pending exactly as long as its execution task has not
\* run, and while it is pending none of its steps has left pending, in
\* memory or in its row; the status leaves pending only for running, in the
\* first step of the workflow's own task, and never becomes pending again;
\* and every workflow that was started does leave pending.
C30_RunningFirstAndOnce ==
    /\ \A id \in WorkflowIds :
          (id \in DOMAIN workflows) ~>
              (id \in DOMAIN workflows /\ workflows[id].status # "pending")
    /\ [](\A id \in DOMAIN workflows :
             /\ (workflows[id].status = "pending") <=> (task[id].at = "scheduled")
             /\ workflows[id].status = "pending" =>
                   \A a \in StageNames : StepStatus(id, a) = "pending"
             /\ db[id].status = "pending" =>
                   \A a \in StageNames : db[id].steps[a].status = "pending")
    /\ [][\A id \in DOMAIN workflows :
             /\ (workflows[id].status = "pending" /\ workflows'[id].status # "pending") =>
                   /\ workflows'[id].status = "running"
                   /\ task[id].at = "scheduled"
                   /\ task'[id].at = "w_running"
                   /\ \A other \in (DOMAIN task) \ {id} : task'[other] = task[other]
             /\ workflows[id].status # "pending" => workflows'[id].status # "pending"]_vars

\* The task of one workflow has made it running and is in the store write
\* of that transition, no step begun; the other workflow is pending still.
C30_Witness ==
    \E id, other \in DOMAIN workflows :
        /\ task[id].at = "w_running"
        /\ workflows[id].status = "running"
        /\ db[id].status = "pending"
        /\ DOMAIN workflows[id].results = {}
        /\ workflows[other].status = "pending"
        /\ task[other].at = "scheduled"

\* C31: in every state at most one of the four steps of a workflow is
\* in_progress in memory, and at most one in its row, so the step that the
\* first-match scans of current_step and _get_current_step report is the
\* only one.
C31_AtMostOneInProgress ==
    \A id \in DOMAIN workflows :
        /\ \A a, b \in InProgress(id) : a = b
        /\ \A a, b \in InProgressStored(id) : a = b
        /\ \A a \in InProgress(id) : current_step(workflows[id]) = a
        /\ \A a \in InProgressStored(id) : get_current_step(db[id]) = a

\* The tester step of one workflow and the implement step of the other are
\* in_progress, in memory and in the row, every earlier step having ended.
C31_Witness ==
    \E id, other \in DOMAIN workflows :
        /\ InProgress(id) = {"tester"}
        /\ InProgressStored(id) = {"tester"}
        /\ StepStatus(id, "reviewer") = "failed"
        /\ db[id].steps["implement"].status = "completed"
        /\ InProgress(other) = {"implement"}
        /\ InProgressStored(other) = {"implement"}

\* What of a workflow's row differs from the in-memory state: "status" for
\* the workflow's status, a stage's name for that step's status.  A step
\* with no in-memory result counts as pending.
Behind(id) ==
    (IF db[id].status # workflows[id].status THEN {"status"} ELSE {})
    \cup {a \in StageNames : db[id].steps[a].status # StepStatus(id, a)}

\* What the store write a task is suspended in is about to set.
PendingWrite(id) ==
    IF task[id].at \in StepStorePoints THEN {task[id].stage}
    ELSE IF task[id].at \in StorePoints THEN {"status"}
    ELSE {}

\* C32: in every state the statuses in a workflow's row differ from the
\* in-memory ones in exactly what the store write in progress, if there is
\* one, is about to set, and in nothing once the task has ended; and when a
\* task makes a transition in memory, the row holds, after that step, the
\* statuses the transition started from: the row is never ahead.
C32_StoreLagsByOneWrite ==
    /\ [](\A id \in DOMAIN workflows :
             /\ Behind(id) = PendingWrite(id)
             /\ task[id].at \in Ended => PersistedIn(db, workflows, id))
    /\ [][\A id \in DOMAIN workflows :
             (\/ workflows'[id].status # workflows[id].status
              \/ \E a \in StageNames :
                    StepStatusIn(workflows', id, a) # StepStatus(id, a)) =>
                 /\ PersistedIn(db', workflows, id)
                 /\ task'[id].at \in StorePoints]_vars

\* One task is in the store write of its workflow's FAILED status, the row
\* still saying running with the implement step failed; the other task has
\* returned and its row equals its completed in-memory state.
C32_Witness ==
    \E id, other \in DOMAIN workflows :
        /\ task[id].at = "w_failwf"
        /\ workflows[id].status = "failed"
        /\ db[id].status = "running"
        /\ db[id].steps["implement"].status = "failed"
        /\ task[other].at = "done"
        /\ workflows[other].status = "completed"
        /\ PersistedIn(db, workflows, other)

\* C33: in every state each row of conversation_history has a workflow_id
\* that has a row in table workflows.
C33_MessagesHaveWorkflow ==
    \A id \in DOMAIN conversation_history :
        \A i \in 1..Len(conversation_history[id]) : id \in DOMAIN db

\* C34: the calls a workflow's task has made to adapters name each stage
\* at most once; every workflow has one task, which once begun is not begun
\* again and once ended does nothing more; and a step in which an adapter
\* is invoked for a workflow starts and ends with the workflow running.
C34_AdaptersOnceByOneTask ==
    /\ [](/\ DOMAIN task = DOMAIN workflows
          /\ \A id \in DOMAIN calls : \A i, j \in 1..Len(calls[id]) :
                calls[id][i].agent_name = calls[id][j].agent_name => i = j)
    /\ [][\A id \in DOMAIN task :
             /\ task[id].at # "scheduled" => task'[id].at # "scheduled"
             /\ task[id].at \in Ended =>
                   /\ task'[id] = task[id]
                   /\ calls'[id] = calls[id]
                   /\ workflows'[id] = workflows[id]
             /\ Len(calls'[id]) > Len(calls[id]) =>
                   /\ Len(calls'[id]) = Len(calls[id]) + 1
                   /\ workflows[id].status = "running"
                   /\ workflows'[id].status = "running"
             /\ workflows[id].status \in Terminal => Len(calls'[id]) = Len(calls[id])]_vars

\* One workflow is completed after four adapter calls, the reviewer's
\* having raised; the other is failed after the one call of its architect.
C34_Witness ==
    \E id, other \in DOMAIN workflows :
        /\ task[id].at = "done" /\ workflows[id].status = "completed"
        /\ Len(calls[id]) = 4
        /\ Outcome(id, "reviewer") = "raised"
        /\ task[other].at = "done" /\ workflows[other].status = "failed"
        /\ Len(calls[other]) = 1

\* The status of the last workflow_update a workflow's task has issued.
LastBroadcast(id) == events[id][Len(events[id])].status

\* C35: no workflow_update with status completed follows one with status
\* failed, a row whose status is failed stays failed, and a workflow that
\* is failed in memory is in no store write or broadcast of COMPLETED; once
\* the task has ended, the row's status and the status last broadcast are
\* the in-memory status.
C35_NoCompletedAfterFailed ==
    /\ [](\A id \in DOMAIN workflows :
             /\ \A i, j \in 1..Len(events[id]) :
                   (i < j /\ events[id][i].status = "failed") =>
                       events[id][j].status # "completed"
             /\ task[id].at \in {"w_completed", "b_completed"} =>
                   workflows[id].status = "completed"
             /\ task[id].at \in Ended =>
                   /\ db[id].status = workflows[id].status
                   /\ events[id] # <<>> => LastBroadcast(id) = workflows[id].status)
    /\ [][\A id \in DOMAIN workflows :
             db[id].status = "failed" => db'[id].status = "failed"]_vars

\* A workflow failed by its implement step: its task has returned, the row
\* and the last broadcast say failed, and the one before said running.
C35_Witness ==
    \E id \in DOMAIN workflows :
        /\ task[id].at = "done"
        /\ workflows[id].status = "failed"
        /\ StepStatus(id, "implement") = "failed"
        /\ db[id].status = "failed"
        /\ LastBroadcast(id) = "failed"
        /\ events[id][Len(events[id]) - 1].status = "running"

\* ------------------------------------------------ GET /workflows/stats
\* SELECT COUNT(*) FROM workflows [WHERE status = ?]
count(rows, status) ==
    Cardinality({id \in DOMAIN rows : status = NoneStr \/ rows[id].status = status})

\* The five SELECTs of get_dashboard_stats in the order it awaits them: the
\* total, then one per status.
StatsSelects == <<NoneStr, "pending", "running", "completed", "failed">>

\* DashboardStats(total_workflows=total[0], ...) from the five counts.
DashboardStats(selected) ==
    [total_workflows |-> selected[1], pending_workflows |-> selected[2],
     running_workflows |-> selected[3], completed_workflows |-> selected[4],
     failed_workflows |-> selected[5]]

\* One SELECT of a get_dashboard_stats call completes: the first of a new
\* call, or the next of the call in progress.  Each is awaited by itself
\* and reads the table as it is then; the tasks of the workflows and other
\* requests run between two of them.  `returned` keeps the counts read so
\* far; with the fifth the call returns.
GetDashboardStats ==
    /\ returned.call \in {NoneStr, "get_dashboard_stats"}
    /\ LET selected == IF returned.call = NoneStr THEN <<>> ELSE returned.selected
       IN  /\ Len(selected) < Len(StatsSelects)
           /\ returned' = [call |-> "get_dashboard_stats",
                           selected |-> Append(selected,
                                           count(db, StatsSelects[Len(selected) + 1]))]
    /\ UNCHANGED <<workflows, db, conversation_history, active_connections, open,
                   task, events, calls, clock, received, lock, unguarded>>

\* The workflows' tasks and the store's requests, with no websocket.
NextStats ==
    \/ \E provider \in Providers : StartWorkflow(provider)
    \/ \E id \in DOMAIN task : ExecuteWorkflow(id)
    \/ \E id \in DOMAIN task : StoreDone(id)
    \/ \E id \in DOMAIN task : ConversationSaved(id)
    \/ \E id \in DOMAIN task : AdapterReturns(id)
    \/ \E id \in DOMAIN task : AdapterRaises(id)
    \/ \E id \in WorkflowIds : DeleteWorkflow(id)
    \/ GetDashboardStats

SpecStats == Init /\ [][NextStats]_vars

\* C36: the DashboardStats a get_dashboard_stats call returns has a total
\* that is the sum of its pending, running, completed and failed counts.
C36_StatsConsistent ==
    (returned.call = "get_dashboard_stats" /\ Len(returned.selected) = Len(StatsSelects)) =>
        LET stats == DashboardStats(returned.selected)
        IN  stats.total_workflows =
               stats.pending_workflows + stats.running_workflows
               + stats.completed_workflows + stats.failed_workflows

\* A step of the execution task of workflow id.
TaskStep(id) ==
    \/ ExecuteWorkflow(id)
    \/ StoreDone(id)
    \/ ConversationSaved(id)
    \/ AdapterReturns(id)
    \/ AdapterRaises(id)
    \/ SendDone(id)

\* C37: no step removes an id from the orchestrator's in-memory table; a
\* delete of a workflow's row changes neither the in-memory state nor the
\* task; for a workflow whose row was deleted the status request still
\* answers with the workflow, its task, until it has ended, can take its
\* next step, a task that has returned leaves the workflow completed or
\* failed, and no step puts a row for the id back in the store.
C37_InMemoryOutlivesDelete ==
    /\ [](\A id \in Deleted :
             /\ GetWorkflowStatus(workflows, id).status_code = 200
             /\ GetWorkflowStatus(workflows, id).status = workflows[id].status
             /\ task[id].at \notin Ended => ENABLED TaskStep(id)
             /\ task[id].at = "done" => workflows[id].status \in Terminal)
    /\ [][/\ DOMAIN workflows \subseteq DOMAIN workflows'
          /\ \A id \in Deleted : id \notin DOMAIN db'
          /\ \A id \in (DOMAIN db) \ (DOMAIN db') :
                workflows' = workflows /\ task' = task]_vars

\* The row of a workflow was deleted while its task ran; the task went on
\* through all four stages and has returned, the workflow is completed in
\* memory and the status request reports it, and the store has no row.
C37_Witness ==
    \E id \in Deleted :
        /\ task[id].at = "done"
        /\ workflows[id].status = "completed"
        /\ Len(calls[id]) = 4
        /\ GetWorkflowStatus(workflows, id).status = "completed"
        /\ get_workflow(db, id) = NoneVal

====
